---- MODULE Spec2Model ----
(***************************************************************************)
(* django-uni-form: the FormHelper attribute projection, the layout tree   *)
(* (Layout, Fieldset, MultiField, Row, Column, HTML, field references),    *)
(* render_field with the form's rendered_fields list, and the uni_form     *)
(* template tag (BasicNode.get_render).                                    *)
(*                                                                         *)
(* Text values that the code lower-cases or strips are sequences of        *)
(* one-character strings; field identifiers are sequences of code points   *)
(* (bytes of a str, code points of a unicode); markup is a sequence of     *)
(* tokens, so that string concatenation is \o and '' is << >>.             *)
(***************************************************************************)
EXTENDS Integers, Sequences, FiniteSets, TLC

VARIABLES
    settings,   \* django.conf.settings.UNIFORM_FAIL_SILENTLY: "unset", "True", "False"
    forms,      \* the form instances: id -> [fields, errors, help, has_rendered, rendered_fields, has_html, form_html, passes]
    helper,     \* the FormHelper instance
    raised,     \* the exception the most recent call raised, "" when it returned
    attrs,      \* what the most recent call returned when it was get_attributes, else {}
    last,       \* what the most recent BasicNode.get_render call was given and returned
    instances   \* the inputs lists: FormHelper.inputs of the class, and of each instance its own

vars == <<settings, forms, helper, raised, attrs, last, instances>>

(***************************************************************************)
(* Bounds of the model.                                                    *)
(***************************************************************************)
\* render passes one form instance receives before it is constructed anew
MaxPasses == 2
\* input descriptors one helper receives
MaxInputs == 2

Range(s) == {s[i] : i \in DOMAIN s}

(***************************************************************************)
(* Python values.                                                          *)
(***************************************************************************)
\* Python's None, kept apart from every text (texts hold one-character strings)
None == <<"None">>

\* bool(v) of a text or None
Truthy(v) == v # None /\ v # << >>

\* an empty dict
EmptyDict == [k \in {} |-> TRUE]

\* unicode.lower / str.lower, character by character
LowerChar(c) ==
    CASE c = "G" -> "g" [] c = "E" -> "e" [] c = "T" -> "t"
      [] c = "P" -> "p" [] c = "O" -> "o" [] c = "S" -> "s"
      [] c = "D" -> "d" [] c = "I" -> "i" [] c = "N" -> "n"
      [] c = "L" -> "l" [] c = "F" -> "f" [] c = "A" -> "a"
      [] c = "U" -> "u"
      [] OTHER -> c

Lower(s) == [i \in DOMAIN s |-> LowerChar(s[i])]

IsSpace(c) == c \in {" ", "\t", "\n"}

RECURSIVE LStrip(_)
LStrip(s) == IF s # << >> /\ IsSpace(Head(s)) THEN LStrip(Tail(s)) ELSE s

RECURSIVE RStrip(_)
RStrip(s) ==
    IF s # << >> /\ IsSpace(s[Len(s)]) THEN RStrip(SubSeq(s, 1, Len(s) - 1)) ELSE s

\* str.strip()
Strip(s) == RStrip(LStrip(s))

\* the texts the helper stores and compares
Get == <<"g", "e", "t">>
Post == <<"p", "o", "s", "t">>
Default == <<"d", "e", "f", "a", "u", "l", "t">>
Inline == <<"i", "n", "l", "i", "n", "e">>
InlineLabels == <<"i", "n", "l", "i", "n", "e", "L", "a", "b", "e", "l", "s">>
Dot == <<".">>

(***************************************************************************)
(* The host framework's route reversal: one named route, as in the tests.  *)
(***************************************************************************)
SimpleAction == <<"s", "A">>
SimpleActionUrl == <<"/", "s", "/">>

\* django.core.urlresolvers.reverse: the URL, or NoReverseMatch
Reverse(name) ==
    IF name = SimpleAction THEN [ok |-> TRUE, url |-> SimpleActionUrl]
    ELSE [ok |-> FALSE, url |-> << >>]

(***************************************************************************)
(* FormHelper.                                                             *)
(***************************************************************************)
\* the class attributes, and __init__'s copy of the class-level inputs
FormHelperInit ==
    [ _form_method |-> Post,
      _form_action |-> << >>,
      _form_style |-> Default,
      form_id |-> << >>,
      form_class |-> << >>,
      inputs |-> << >>,
      has_layout |-> FALSE,
      layout |-> << >>,
      form_tag |-> TRUE,
      form_error_title |-> None,
      formset_error_title |-> None ]

get_form_method(h) == h._form_method

\* a variant that stores the value as given, without lower()
StoredMethodAsGiven(method) == method

\* the value stored in _form_method by a valid assignment
StoredMethod(method) == Lower(method)

\* set_form_method: [exc, h]
set_form_method(h, method) ==
    IF Lower(method) \notin {Get, Post}
    THEN [exc |-> "FormHelpersException", h |-> h]
    ELSE [exc |-> "", h |-> [h EXCEPT !._form_method = StoredMethod(method)]]

get_form_action(h) ==
    LET r == Reverse(h._form_action)
    IN  IF r.ok THEN r.url ELSE h._form_action

set_form_action(h, action) == [h EXCEPT !._form_action = action]

\* None when _form_style is neither "default" nor "inline": the method falls off its end
get_form_style(h) ==
    IF h._form_style = Default THEN << >>
    ELSE IF h._form_style = Inline THEN InlineLabels
    ELSE None

set_form_style(h, style) ==
    IF Lower(style) \notin {Default, Inline}
    THEN [exc |-> "FormHelpersException", h |-> h]
    ELSE [exc |-> "", h |-> [h EXCEPT !._form_style = Lower(style)]]

add_input(h, input_object) == [h EXCEPT !.inputs = Append(@, input_object)]

add_layout(h, layout) == [h EXCEPT !.has_layout = TRUE, !.layout = layout]

\* one optional entry of get_attributes: present when the value is truthy
OptItem(key, v) == IF Truthy(v) THEN (key :> Strip(v)) ELSE EmptyDict

\* get_attributes: [exc, items]; None.strip() is an AttributeError
get_attributes(h) ==
    IF get_form_style(h) = None
    THEN [exc |-> "AttributeError", items |-> EmptyDict]
    ELSE [exc |-> "",
          items |->
              ("form_method" :> Strip(get_form_method(h)))
           @@ ("form_tag" :> h.form_tag)
           @@ ("form_style" :> Strip(get_form_style(h)))
           @@ OptItem("form_action", get_form_action(h))
           @@ OptItem("id", h.form_id)
           @@ OptItem("class", h.form_class)
           @@ (IF h.inputs # << >> THEN ("inputs" :> h.inputs) ELSE EmptyDict)
           @@ OptItem("form_error_title", h.form_error_title)
           @@ OptItem("formset_error_title", h.formset_error_title)]

\* self.inputs of an instance: its own attribute when it has one, else the
\* attribute of the class
InputsOf(inst, k) ==
    IF inst.helpers[k].has_inputs THEN inst.helpers[k].inputs ELSE inst.class_inputs

\* a variant of __init__ without the copy: the instance gets no inputs of its own
InitWithoutCopy(inst, k) ==
    [inst EXCEPT !.helpers[k] = [has_inputs |-> FALSE, inputs |-> << >>]]

\* FormHelper.__init__ on a new instance k: self.inputs = self.inputs[:]
FormHelper__init__(inst, k) ==
    [inst EXCEPT !.helpers[k] = [has_inputs |-> TRUE, inputs |-> inst.class_inputs]]

\* add_input on instance k: self.inputs.append(input_object) changes the list
\* self.inputs resolves to
add_input_to(inst, k, input_object) ==
    IF inst.helpers[k].has_inputs
    THEN [inst EXCEPT !.helpers[k].inputs = Append(@, input_object)]
    ELSE [inst EXCEPT !.class_inputs = Append(@, input_object)]

\* the class as defined (inputs = []) and no instance yet
HelperIds == {1, 2}
NoInstances ==
    [class_inputs |-> << >>,
     helpers |-> [k \in HelperIds |-> [has_inputs |-> FALSE, inputs |-> << >>]]]

\* two helpers built with the constructor
TwoHelpers == FormHelper__init__(FormHelper__init__(NoInstances, 1), 2)

\* the input descriptors of helpers.py (Submit, Button, Hidden, Reset), built
\* without the css_class keyword
Submit(name, value) ==
    [name |-> name, value |-> value, input_type |-> "submit", field_classes |-> "submit submitButton"]
Reset(name, value) ==
    [name |-> name, value |-> value, input_type |-> "reset", field_classes |-> "reset resetButton"]
Hidden(name, value) ==
    [name |-> name, value |-> value, input_type |-> "hidden", field_classes |-> "hidden"]
Button(name, value) ==
    [name |-> name, value |-> value, input_type |-> "button", field_classes |-> "button"]

(***************************************************************************)
(* The layout tree.  Every node is a record of one shape; a field          *)
(* reference is a node of kind "Field" whose name holds the identifier's   *)
(* code points and whose ty is its Python type, "str" or "unicode".        *)
(***************************************************************************)
Node(kind, ty, name, legend, css_id, css_class, label_class, html, fields) ==
    [kind |-> kind, ty |-> ty, name |-> name, legend |-> legend, css_id |-> css_id,
     css_class |-> css_class, label_class |-> label_class, html |-> html, fields |-> fields]

\* 'name' and u'name' in a layout
FieldRef(ty, name) == Node("Field", ty, name, "", "", "", "", "", << >>)

\* Layout.__init__
Layout(fields) == Node("Layout", "", << >>, "", "", "", "", "", fields)

\* Fieldset.__init__: css_class and css_id default to None
Fieldset(legend, fields, css_id, css_class) ==
    Node("Fieldset", "", << >>, legend, css_id, css_class, "", "", fields)

\* MultiField.__init__: div_class (kept in css_class) defaults to ctrlHolder,
\* label_class to blockLabel; the label (kept in legend) becomes label_html
MultiField(label, fields, css_id) ==
    Node("MultiField", "", << >>, label, css_id, "ctrlHolder", "blockLabel", "", fields)

\* Row.__init__ and Column.__init__
Row(fields, css_id, css_class) == Node("Row", "", << >>, "", css_id, css_class, "", "", fields)
Column(fields, css_id, css_class) == Node("Column", "", << >>, "", css_id, css_class, "", "", fields)

\* HTML.__init__
HTML(html) == Node("HTML", "", << >>, "", "", "", "", html, << >>)

(***************************************************************************)
(* Markup: a sequence of tokens of one shape.                              *)
(***************************************************************************)
Tok(t, a, b, name, style, n) == [t |-> t, a |-> a, b |-> b, name |-> name, style |-> style, n |-> n]

\* render_to_string(template, {'field': BoundField(form, field_instance, field), 'labelclass': labelclass})
FieldMarkup(name, template, labelclass) == <<Tok("field", template, labelclass, name, << >>, 0)>>

(***************************************************************************)
(* render_field and the nodes' render methods.  A result is               *)
(* [html, rs, exc]: the markup returned, the form's rendered_fields        *)
(* attribute afterwards ([has, list]: hasattr and the list), and the       *)
(* exception raised ("" when the call returned).  f is the form.           *)
(***************************************************************************)
Returned(html, rs) == [html |-> html, rs |-> rs, exc |-> ""]
Raised(exc, rs) == [html |-> << >>, rs |-> rs, exc |-> exc]

ExcUnicode == "Exception: Field is using forbidden unicode characters"
ExcUnresolved == "Exception: Could not resolve form field"
ExcDouble == "Exception: A field should only be rendered once"
ExcNoRenderedFields == "AttributeError: rendered_fields"
ExcNoCss == "AttributeError: css"

\* getattr(settings, 'UNIFORM_FAIL_SILENTLY', True)
FAIL_SILENTLY(s) == IF s = "unset" THEN TRUE ELSE s = "True"

\* str(field) of a unicode and str(unicode(field)) of a str: the ASCII codec
\* takes an identifier whose code points are all below 128
AsciiOnly(name) == \A i \in DOMAIN name : name[i] < 128

\* form.fields[field]: the KeyError test
Resolves(name, f) == name \in Range(f.fields)

\* a variant in which an unresolved field is skipped in both modes
UnresolvedRaisesNever(fs) == FALSE

\* whether an unresolved field raises in this mode
UnresolvedRaises(fs) == ~fs

\* a variant in which a second rendering is logged in both modes
DoubleRaisesNever(fs) == FALSE

\* whether a second rendering of a field raises in this mode
DoubleRaises(fs) == ~fs

\* the markup of a field rendered a second time in permissive mode
DoubleHtml(html) == html

\* a variant that appends the name whether or not the list holds it
TrackAppending(name, rs) ==
    [has |-> TRUE, list |-> Append(IF rs.has THEN rs.list ELSE << >>, name)]

\* lines 121-124: the attribute is created when missing, the name appended when new
Track(name, rs) ==
    LET l == IF rs.has THEN rs.list ELSE << >>
    IN  [has |-> TRUE, list |-> IF name \in Range(l) THEN l ELSE Append(l, name)]

\* the name is in form.rendered_fields (after line 122 the attribute exists)
AlreadyRendered(name, rs) == rs.has /\ name \in Range(rs.list)

\* a variant that prepends each piece
ConcatReversed(html, piece) == piece \o html

\* str concatenation html += piece
Concat(html, piece) == html \o piece

RECURSIVE render_field(_, _, _, _, _, _, _)
RECURSIVE RenderEach(_, _, _, _, _, _, _, _)
RECURSIVE AppendRest(_, _, _, _, _, _)
RECURSIVE MultiFieldLoop(_, _, _, _, _, _)

\* for field in fields: html += render_field(field, form, ...), from html0
RenderEach(fields, f, rs, form_style, template, labelclass, fs, html0) ==
    IF fields = << >> THEN Returned(html0, rs)
    ELSE LET r == render_field(Head(fields), f, rs, form_style, template, labelclass, fs)
         IN  IF r.exc # "" THEN r
             ELSE RenderEach(Tail(fields), f, r.rs, form_style, template, labelclass, fs,
                             Concat(html0, r.html))

\* Fieldset.render(form, form_style) up to its loop: the opening tag and the legend
Fieldset_open(node, form_style) ==
    <<Tok("<fieldset", node.css_id, node.css_class, << >>, form_style, 0)>>
    \o (IF node.legend # "" THEN <<Tok("<legend>", node.legend, "", << >>, << >>, 0)>>
        ELSE << >>)

\* Row.render(form) and Column.render(form) up to their loop
Row_open(node) == <<Tok("<div", node.css_id, node.css_class, << >>, << >>, 0)>>

Column_open(node) == <<Tok("<div", node.css_id, node.css_class, << >>, << >>, 0)>>

\* what Fieldset.render, Row.render and Column.render return: r is the result of
\* the loop over the children, which started from the opening markup
Container_close(node, r) ==
    IF r.exc # "" THEN r
    ELSE Returned(r.html \o <<Tok(IF node.kind = "Fieldset" THEN "</fieldset>" ELSE "</div>",
                                  "", "", << >>, << >>, 0)>>, r.rs)

\* HTML.render(form): Template(self.html).render(Context({'form': form}))
HTML_render(node, f, rs) == Returned(<<Tok("html", node.html, "", << >>, << >>, 0)>>, rs)

\* the error paragraphs of one bound field, ids numbered from count
ErrorBlocks(name, errs, count) ==
    [i \in 1..Len(errs) |-> Tok("error", errs[i], "errorField", name, << >>, count + i - 1)]

\* the hint paragraph of one bound field
HelpBlock(name, help) ==
    IF help # "" THEN <<Tok("hint", help, "formHint", name, << >>, 0)>> ELSE << >>

\* the accumulators of MultiField.render before its loop
MultiFieldStart == [fieldoutput |-> << >>, errors |-> << >>, helptext |-> << >>, count |-> 0]

\* the second half of one turn of MultiField.render's loop, for a field that
\* form.fields[field] resolves: its errors and help text are added
MultiFieldAggregate(field, f, out) ==
    [out EXCEPT !.errors = @ \o ErrorBlocks(field.name, f.errors[field.name], out.count),
                !.count = @ + Len(f.errors[field.name]),
                !.helptext = @ \o HelpBlock(field.name, f.help[field.name])]

\* the loop of MultiField.render: [html, rs, exc, acc]
MultiFieldLoop(fields, node, f, rs, fs, acc) ==
    IF fields = << >> THEN [html |-> << >>, rs |-> rs, exc |-> "", acc |-> acc]
    ELSE LET field == Head(fields)
             r == render_field(field, f, rs, << >>, "uni_form/multifield.html", node.label_class, fs)
             out == [acc EXCEPT !.fieldoutput = Concat(@, r.html)]
             keyerror == ~(field.kind = "Field" /\ Resolves(field.name, f))
         IN  IF r.exc # "" THEN [html |-> << >>, rs |-> r.rs, exc |-> r.exc, acc |-> acc]
             ELSE IF keyerror /\ ~fs
                  THEN [html |-> << >>, rs |-> r.rs, exc |-> ExcUnresolved, acc |-> out]
             ELSE MultiFieldLoop(Tail(fields), node, f, r.rs, fs,
                                 IF keyerror THEN out ELSE MultiFieldAggregate(field, f, out))

\* MultiField.render(form) after its loop, whose result is l
MultiField_close(node, l) ==
    IF l.exc # "" THEN Raised(l.exc, l.rs)
    ELSE IF l.acc.errors # << >> THEN Raised(ExcNoCss, l.rs)   \* self.css += u' error'
    ELSE Returned(
             <<Tok("<div", node.css_id, node.css_class, << >>, << >>, 0)>>
          \o l.acc.errors
          \o (IF node.legend # "" THEN <<Tok("<p class=label>", node.legend, "", << >>, << >>, 0)>>
              ELSE << >>)
          \o <<Tok("<div class=multiField>", "", "", << >>, << >>, 0)>>
          \o l.acc.fieldoutput
          \o <<Tok("</div>", "", "", << >>, << >>, 0)>>
          \o l.acc.helptext
          \o <<Tok("</div>", "", "", << >>, << >>, 0)>>,
          l.rs)

\* lines 101-137 of render_field: a field identifier
render_name(field, f, rs, template, labelclass, fs) ==
    IF ~AsciiOnly(field.name) THEN Raised(ExcUnicode, rs)
    ELSE IF ~Resolves(field.name, f) /\ UnresolvedRaises(fs) THEN Raised(ExcUnresolved, rs)
    ELSE LET html == IF Resolves(field.name, f)
                     THEN FieldMarkup(field.name, template, labelclass) ELSE << >>
         IN  IF AlreadyRendered(field.name, rs)
             THEN IF DoubleRaises(fs) THEN Raised(ExcDouble, rs)
                  ELSE Returned(DoubleHtml(html), Track(field.name, rs))
             ELSE Returned(html, Track(field.name, rs))

\* the opening markup of Fieldset.render(form, form_style), Row.render(form), Column.render(form)
Container_open(node, form_style) ==
    CASE node.kind = "Fieldset" -> Fieldset_open(node, form_style)
      [] node.kind = "Row" -> Row_open(node)
      [] node.kind = "Column" -> Column_open(node)

\* render_field(field, form, form_style, template, labelclass): a node with a
\* render method is rendered by it (only a Fieldset is passed form_style, and
\* every container renders its children with render_field(field, form))
render_field(field, f, rs, form_style, template, labelclass, fs) ==
    IF field.kind = "Field" THEN render_name(field, f, rs, template, labelclass, fs)
    ELSE IF field.kind = "HTML" THEN HTML_render(field, f, rs)
    ELSE IF field.kind = "MultiField"
         THEN MultiField_close(field, MultiFieldLoop(field.fields, field, f, rs, fs, MultiFieldStart))
    ELSE Container_close(field,
             RenderEach(field.fields, f, rs, << >>, "uni_form/field.html", "", fs,
                        Container_open(field, form_style)))

\* whether the automatic append of Layout.render takes this field of the form
NotYetRendered(name, rs) == name \notin Range(rs.list)

\* the keys the automatic append walks: form.fields.keys()
FieldKeys(f) == f.fields

\* a variant of the second loop that walks the fields the form class declares
\* (form.base_fields) and renders each one not yet rendered
AppendRestOfClass(keys, f, rs, form_style, fs, html0) ==
    LET l == IF rs.has THEN rs.list ELSE << >>
        Left(n) == n \notin Range(l)
        rest == SelectSeq(f.base_fields, Left)
    IN  Returned(html0 \o [k \in DOMAIN rest |->
                               Tok("field", "uni_form/field.html", "", rest[k], << >>, 0)],
                 [has |-> TRUE, list |-> l \o rest])

\* the second loop of Layout.render: for field in form.fields.keys()
AppendRest(keys, f, rs, form_style, fs, html0) ==
    IF keys = << >> THEN Returned(html0, rs)
    ELSE IF ~rs.has THEN Raised(ExcNoRenderedFields, rs)
    ELSE IF ~NotYetRendered(Head(keys), rs)
         THEN AppendRest(Tail(keys), f, rs, form_style, fs, html0)
    ELSE LET r == render_field(FieldRef("str", Head(keys)), f, rs, form_style,
                               "uni_form/field.html", "", fs)
         IN  IF r.exc # "" THEN r
             ELSE AppendRest(Tail(keys), f, r.rs, form_style, fs, Concat(html0, r.html))

\* Layout.render(form, form_style)
Layout_render(layout, f, rs, form_style, fs) ==
    LET r == RenderEach(layout.fields, f, rs, form_style, "uni_form/field.html", "", fs, << >>)
    IN  IF r.exc # "" THEN r
        ELSE AppendRest(FieldKeys(f), f, r.rs, form_style, fs, r.html)

\* FormHelper.render_layout(form, form_style)
render_layout(h, f, rs, form_style, fs) == Layout_render(h.layout, f, rs, form_style, fs)

(***************************************************************************)
(* The uni_form template tag: BasicNode.                                   *)
(***************************************************************************)
\* a variant of dict.get that ignores the default
DictGetNone(d, key, default) == IF key \in DOMAIN d THEN d[key] ELSE None

\* attrs.get(key, default)
DictGet(d, key, default) == IF key \in DOMAIN d THEN d[key] ELSE default

\* '%s_action' % form_type and its like
TypeKey(is_formset, form_key, formset_key) == IF is_formset THEN formset_key ELSE form_key

\* BasicNode.get_response_dict(attrs, context, is_formset)
get_response_dict(a, has_csrf, is_formset) ==
       (TypeKey(is_formset, "form_action", "formset_action") :> DictGet(a, "form_action", Dot))
    @@ (TypeKey(is_formset, "form_method", "formset_method") :> DictGet(a, "form_method", Post))
    @@ (TypeKey(is_formset, "form_tag", "formset_tag") :> DictGet(a, "form_tag", TRUE))
    @@ (TypeKey(is_formset, "form_class", "formset_class") :> DictGet(a, "class", << >>))
    @@ (TypeKey(is_formset, "form_id", "formset_id") :> DictGet(a, "id", << >>))
    @@ ("form_error_title" :> DictGet(a, "form_error_title", None))
    @@ ("formset_error_title" :> DictGet(a, "formset_error_title", None))
    @@ ("inputs" :> DictGet(a, "inputs", << >>))
    @@ ("is_formset" :> is_formset)
    @@ (IF has_csrf THEN ("csrf_token" :> "csrf") ELSE EmptyDict)

\* the rendered_fields attribute of a form, as render_field takes it
RenderedOf(f) == [has |-> f.has_rendered, list |-> f.rendered_fields]

\* a form after one helper.render_layout call on it: rendered_fields as the call
\* left it, form_html assigned when the call returned
AfterLayout(f, r) ==
    [f EXCEPT !.has_rendered = r.rs.has,
              !.rendered_fields = r.rs.list,
              !.passes = @ + 1,
              !.has_html = IF r.exc = "" THEN TRUE ELSE @,
              !.form_html = IF r.exc = "" THEN r.html ELSE @]

\* a variant in which a member of a formset starts from the rendered_fields the
\* member before it was left with
RECURSIVE RenderTargetsShared(_, _, _, _, _)
RenderTargetsShared(targets, h, style, fs, fms) ==
    IF targets = << >> THEN [exc |-> "", fms |-> fms]
    ELSE LET i == Head(targets)
             r == render_layout(h, fms[i], RenderedOf(fms[IF i > 1 THEN i - 1 ELSE i]), style, fs)
             fms1 == [fms EXCEPT ![i] = AfterLayout(fms[i], r)]
         IN  IF r.exc # "" THEN [exc |-> r.exc, fms |-> fms1]
             ELSE RenderTargetsShared(Tail(targets), h, style, fs, fms1)

\* lines 66-71: the layout rendered against each target form in turn; [exc, fms]
RECURSIVE RenderTargets(_, _, _, _, _)
RenderTargets(targets, h, style, fs, fms) ==
    IF targets = << >> THEN [exc |-> "", fms |-> fms]
    ELSE LET i == Head(targets)
             r == render_layout(h, fms[i], RenderedOf(fms[i]), style, fs)
             fms1 == [fms EXCEPT ![i] = AfterLayout(fms[i], r)]
         IN  IF r.exc # "" THEN [exc |-> r.exc, fms |-> fms1]
             ELSE RenderTargets(Tail(targets), h, style, fs, fms1)

\* a variant without the isinstance check
HelperAcceptedAnything(kind) == TRUE

\* whether the helper the tag resolved is accepted: isinstance(helper, FormHelper)
HelperAccepted(kind) == kind = "FormHelper"

\* whether lines 66-71 render the layout: if helper and helper.layout
UsesLayout(kind, h) == kind = "FormHelper" /\ h.has_layout

\* BasicNode.get_render(context): [exc, ctx, fms].  kind is what the helper
\* variable resolves to ("none": the tag has no helper argument), targets the
\* form, or the forms of the formset, the form variable resolves to
get_render(targets, is_formset, kind, h, has_csrf, fs, fms) ==
    IF kind # "none" /\ ~HelperAccepted(kind)
    THEN [exc |-> "TypeError", ctx |-> EmptyDict, fms |-> fms]
    ELSE LET ga == IF kind = "none" THEN [exc |-> "", items |-> EmptyDict]
                   ELSE get_attributes(h)
         IN  IF ga.exc # "" THEN [exc |-> ga.exc, ctx |-> EmptyDict, fms |-> fms]
             ELSE LET rd == get_response_dict(ga.items, has_csrf, is_formset)
                      rt == IF UsesLayout(kind, h)
                            THEN RenderTargets(targets, h, ga.items["form_style"], fs, fms)
                            ELSE [exc |-> "", fms |-> fms]
                  IN  IF rt.exc # "" THEN [exc |-> rt.exc, ctx |-> EmptyDict, fms |-> rt.fms]
                      ELSE [exc |-> "",
                            ctx |-> rd @@ (TypeKey(is_formset, "form", "formset") :> targets),
                            fms |-> rt.fms]

(***************************************************************************)
(* The forms, layouts and values the calls are made with.                  *)
(***************************************************************************)
\* field names of the form class: 'a', 'b', 'c'
FA == <<97>>
FB == <<98>>
FC == <<99>>
\* 'typo': no field of the form
Typo == <<116, 121, 112, 111>>
\* 'espan~a' as a str: its UTF-8 bytes
EspanaStr == <<101, 115, 112, 97, 195, 177, 97>>

FormFields == <<FA, FB, FC>>
AllNames == {FA, FB, FC, Typo}

NoErrors == [n \in Range(FormFields) |-> << >>]
ErrorOnA == [NoErrors EXCEPT ![FA] = <<"This field is required.">>]
ErrorProfiles == {NoErrors, ErrorOnA}

NoHelp == [n \in Range(FormFields) |-> ""]

\* a form just constructed: fields is the instance's copy of the fields the class
\* declares (base_fields); no rendered_fields and no form_html attribute
NewFormValue(errors) ==
    [fields |-> FormFields, base_fields |-> FormFields, errors |-> errors, help |-> NoHelp,
     has_rendered |-> FALSE, rendered_fields |-> << >>,
     has_html |-> FALSE, form_html |-> << >>, passes |-> 0]

LayoutAB == Layout(<<FieldRef("str", FA), FieldRef("unicode", FB)>>)
LayoutFieldset ==
    Layout(<<Fieldset("User Data",
                      <<FieldRef("unicode", FA),
                        Row(<<FieldRef("str", FB)>>, "row_passwords", "rows"),
                        HTML("<a id=testLink>")>>,
                      "fieldset_company_data", "fieldsets")>>)
LayoutTypo == Layout(<<FieldRef("str", Typo), FieldRef("str", FB)>>)
LayoutDouble == Layout(<<FieldRef("str", FA), FieldRef("str", FB), FieldRef("str", FA)>>)
LayoutUnicode == Layout(<<FieldRef("str", FA), FieldRef("str", EspanaStr)>>)
LayoutHtmlOnly == Layout(<<HTML("<hr>")>>)
LayoutMulti ==
    Layout(<<MultiField("", <<FieldRef("str", FA), FieldRef("str", Typo), FieldRef("str", FB)>>,
                        "multifield_info"),
             Column(<<FieldRef("str", FC)>>, "column_name", "formColumn")>>)

Layouts == {LayoutAB, LayoutFieldset, LayoutTypo, LayoutDouble, LayoutUnicode,
            LayoutHtmlOnly, LayoutMulti}

\* the helper of test_uni_form_with_helper_attributes_without_layout
TestHelper ==
    [FormHelperInit EXCEPT !.form_id = <<"i", "d">>,
                           !.form_class = <<"c">>,
                           !._form_method = Get,
                           !._form_action = SimpleAction,
                           !.form_error_title = <<"E">>]

MethodValues ==
    {Get, Post, <<"G", "E", "T">>, <<"P", "o", "s", "t">>, << >>, <<" ", "g", "e", "t">>,
     <<"s", "u", "p", "e", "r", "P", "o", "s", "t">>}
StyleValues == {Default, Inline, <<"I", "N", "L", "I", "N", "E">>, <<"b", "o", "l", "d">>}
ActionValues == {<< >>, <<" ">>, SimpleAction}
IdValues == {<< >>, <<" ">>, <<" ", "i", "d", " ">>}
ClassValues == {<< >>, <<"c">>}
TitleValues == {<<" ">>, <<"E">>}
FormsetTitleValues == {<<"F">>}
InputValues == {Submit("my-submit", "Submit")}

\* no get_render call yet
NoRender ==
    [called |-> FALSE, targets |-> << >>, is_formset |-> FALSE, kind |-> "", csrf |-> FALSE,
     helper |-> FormHelperInit, exc |-> "", ctx |-> EmptyDict]

FormIds == {1}

(***************************************************************************)
(* The calls.                                                              *)
(***************************************************************************)
\* settings.UNIFORM_FAIL_SILENTLY = v, and del settings.UNIFORM_FAIL_SILENTLY
SetFailSilently(v) ==
    /\ settings' = v
    /\ raised' = ""
    /\ attrs' = EmptyDict
    /\ UNCHANGED <<instances, forms, helper, last>>

\* form = TestForm(...): a new instance takes the place of form i
NewForm(i, errors) ==
    /\ forms' = [forms EXCEPT ![i] = NewFormValue(errors)]
    /\ raised' = ""
    /\ attrs' = EmptyDict
    /\ last' = IF i \in Range(last.targets) THEN NoRender ELSE last
    /\ UNCHANGED <<instances, settings, helper>>

\* a helper call that returns [exc, h]
HelperCall(res) ==
    /\ helper' = res.h
    /\ raised' = res.exc
    /\ attrs' = EmptyDict
    /\ UNCHANGED <<instances, settings, forms, last>>

\* helper.form_method = v
SetFormMethod(v) == HelperCall(set_form_method(helper, v))

\* helper.form_style = v
SetFormStyle(v) == HelperCall(set_form_style(helper, v))

\* helper.form_action = v
SetFormAction(v) ==
    HelperCall([exc |-> "", h |-> set_form_action(helper, v)])

\* helper.form_id = v
SetFormId(v) == HelperCall([exc |-> "", h |-> [helper EXCEPT !.form_id = v]])

\* helper.form_class = v
SetFormClass(v) ==
    HelperCall([exc |-> "", h |-> [helper EXCEPT !.form_class = v]])

\* helper.form_error_title = v
SetFormErrorTitle(v) ==
    HelperCall([exc |-> "", h |-> [helper EXCEPT !.form_error_title = v]])

\* helper.formset_error_title = v
SetFormsetErrorTitle(v) ==
    HelperCall([exc |-> "", h |-> [helper EXCEPT !.formset_error_title = v]])

\* helper.form_tag = b
SetFormTag(b) ==
    /\ helper' = [helper EXCEPT !.form_tag = b]
    /\ raised' = ""
    /\ attrs' = EmptyDict
    /\ UNCHANGED <<instances, settings, forms, last>>

\* helper.add_input(input_object)
AddInput(input_object) ==
    /\ Len(helper.inputs) < MaxInputs
    /\ HelperCall([exc |-> "", h |-> add_input(helper, input_object)])

\* helper.add_layout(layout)
AddLayout(layout) ==
    HelperCall([exc |-> "", h |-> add_layout(helper, layout)])

\* helper.get_attributes()
GetAttributes ==
    LET r == get_attributes(helper)
    IN  /\ raised' = r.exc
        /\ attrs' = r.items
        /\ UNCHANGED <<instances, settings, forms, helper, last>>

\* a variant in which a render marks the layout it rendered
UniFormTagMarking(targets, is_formset, kind, has_csrf) ==
    LET r == get_render(targets, is_formset, kind, helper, has_csrf, FAIL_SILENTLY(settings), forms)
    IN  /\ \A k \in 1..Len(targets) : forms[targets[k]].passes < MaxPasses
        /\ forms' = r.fms
        /\ raised' = r.exc
        /\ attrs' = EmptyDict
        /\ last' = [called |-> TRUE, targets |-> targets, is_formset |-> is_formset,
                    kind |-> kind, csrf |-> has_csrf, helper |-> helper,
                    exc |-> r.exc, ctx |-> r.ctx]
        /\ helper' = IF UsesLayout(kind, helper)
                     THEN [helper EXCEPT !.layout = [@ EXCEPT !.css_class = "error"]]
                     ELSE helper
        /\ UNCHANGED <<instances, settings>>

\* template.render(c) of {% uni_form form [helper] %}: BasicNode.get_render on the
\* targets the form variable resolves to
UniFormTag(targets, is_formset, kind, has_csrf) ==
    LET r == get_render(targets, is_formset, kind, helper, has_csrf, FAIL_SILENTLY(settings), forms)
    IN  /\ \A k \in 1..Len(targets) : forms[targets[k]].passes < MaxPasses
        /\ forms' = r.fms
        /\ raised' = r.exc
        /\ attrs' = EmptyDict
        /\ last' = [called |-> TRUE, targets |-> targets, is_formset |-> is_formset,
                    kind |-> kind, csrf |-> has_csrf, helper |-> helper,
                    exc |-> r.exc, ctx |-> r.ctx]
        /\ UNCHANGED <<instances, settings, helper>>

\* {% uni_form form ... %} with one form
RenderForm(i, kind, has_csrf) == UniFormTag(<<i>>, FALSE, kind, has_csrf)

\* help_text on field b of the form class
HelpOnB == [NoHelp EXCEPT ![FB] = "Pick one."]
HelpProfiles == {NoHelp, HelpOnB}

\* two errors on a and one on b
ErrorsOnAB ==
    [NoErrors EXCEPT ![FA] = <<"This field is required.", "Enter a valid value.">>,
                     ![FB] = <<"This field is required.">>]

\* MultiField(label, 'a', 'b'): every child a field of the form
LayoutMultiAB ==
    Layout(<<MultiField("Info", <<FieldRef("str", FA), FieldRef("str", FB)>>, "multifield_info")>>)
\* a MultiField with a Row among its children
LayoutMultiRow ==
    Layout(<<MultiField("", <<FieldRef("str", FA), Row(<<FieldRef("str", FB)>>, "", "formRow")>>,
                        "multifield_info")>>)
\* a MultiField with an HTML node among its children
LayoutMultiHtml ==
    Layout(<<MultiField("", <<HTML("<hr>"), FieldRef("str", FA)>>, "multifield_info")>>)

MultiLayouts == {LayoutMultiAB, LayoutMultiRow, LayoutMultiHtml, LayoutMulti}

\* form = TestForm(...) of a form class whose fields carry help_text
NewFormHelp(i, errors, help) ==
    /\ forms' = [forms EXCEPT ![i] = [NewFormValue(errors) EXCEPT !.help = help]]
    /\ raised' = ""
    /\ attrs' = EmptyDict
    /\ last' = IF i \in Range(last.targets) THEN NoRender ELSE last
    /\ UNCHANGED <<instances, settings, helper>>

\* the forms of a formset of two
FormsetIds == {1, 2}
FormsetForms == <<1, 2>>

\* {% uni_form formset helper %}
RenderFormset(has_csrf) == UniFormTag(FormsetForms, TRUE, "FormHelper", has_csrf)

\* the descriptors of test_uni_form_helper_inputs
AllInputs ==
    {Submit("my-submit", "Submit"), Reset("my-reset", "Reset"),
     Hidden("my-hidden", "Hidden"), Button("my-button", "Button")}

\* helper_k = FormHelper(): a new instance takes the place of helper k
NewHelper(k) ==
    /\ instances' = FormHelper__init__(instances, k)
    /\ raised' = ""
    /\ attrs' = EmptyDict
    /\ UNCHANGED <<settings, forms, helper, last>>

\* helper_k.add_input(input_object)
AddInputTo(k, input_object) ==
    /\ Len(InputsOf(instances, k)) < MaxInputs
    /\ instances' = add_input_to(instances, k, input_object)
    /\ raised' = ""
    /\ attrs' = EmptyDict
    /\ UNCHANGED <<settings, forms, helper, last>>

\* what a caller hands to render_field: field identifiers and container nodes
CallNodes ==
    {FieldRef("str", FA), FieldRef("unicode", FB), FieldRef("str", FC), FieldRef("str", Typo),
     FieldRef("str", EspanaStr),
     Row(<<FieldRef("str", FA), FieldRef("str", Typo)>>, "", "formRow"),
     Fieldset("", <<FieldRef("str", FB), FieldRef("str", FB)>>, "", "")}

\* render_field(field, form) called on form i with the defaults of its other
\* parameters: the form's rendered_fields is what the call leaves
RenderFieldCall(i, field) ==
    LET r == render_field(field, forms[i], RenderedOf(forms[i]), << >>,
                          "uni_form/field.html", "", FAIL_SILENTLY(settings))
    IN  /\ forms' = [forms EXCEPT ![i].has_rendered = r.rs.has,
                                  ![i].rendered_fields = r.rs.list]
        /\ raised' = r.exc
        /\ attrs' = EmptyDict
        /\ UNCHANGED <<instances, settings, helper, last>>

\* del form.fields[name]
DelFormField(f, name) ==
    LET Other(n) == n # name IN [f EXCEPT !.fields = SelectSeq(@, Other)]

\* del node.fields[k] for every child k of a list of children that is the
\* reference to name
DelChildren(fields, name) ==
    LET Other(n) == ~(n.kind = "Field" /\ n.name = name) IN SelectSeq(fields, Other)

\* the layout after the caller deleted the references to name from the child
\* lists that hold them: layout.fields itself and the fields of a Fieldset in
\* it (the lists; MultiField, Row and Column keep their children in a tuple)
DelLayoutField(layout, name) ==
    [layout EXCEPT !.fields =
        [k \in DOMAIN DelChildren(layout.fields, name) |->
            LET n == DelChildren(layout.fields, name)[k]
            IN  IF n.kind = "Fieldset" THEN [n EXCEPT !.fields = DelChildren(@, name)] ELSE n]]

\* the references a caller can delete: those in layout.fields and in a Fieldset of it
ListedNames(layout) ==
    {layout.fields[k].name : k \in {j \in DOMAIN layout.fields : layout.fields[j].kind = "Field"}}
    \cup UNION {{n.fields[k].name : k \in {j \in DOMAIN n.fields : n.fields[j].kind = "Field"}} :
                  n \in {m \in Range(layout.fields) : m.kind = "Fieldset"}}

\* del form.fields[name]; del form_helper.layout.fields[..]: the field leaves
\* form i and the layout node that declared it
DeleteField(i, name) ==
    /\ helper.has_layout
    /\ name \in Range(forms[i].fields)
    /\ name \in ListedNames(helper.layout)
    /\ forms' = [forms EXCEPT ![i] = DelFormField(@, name)]
    /\ helper' = [helper EXCEPT !.layout = DelLayoutField(@, name)]
    /\ raised' = ""
    /\ attrs' = EmptyDict
    /\ UNCHANGED <<instances, settings, last>>

(***************************************************************************)
(* The rendering pipeline: forms, a helper with a layout, the tag.         *)
(***************************************************************************)
Init ==
    /\ settings = "unset"
    /\ forms = [i \in FormIds |-> NewFormValue(NoErrors)]
    /\ helper \in {FormHelperInit, [TestHelper EXCEPT !._form_style = Inline]}
    /\ raised = ""
    /\ attrs = EmptyDict
    /\ last = NoRender
    /\ instances = TwoHelpers

Next ==
    \/ \E v \in {"unset", "False"} : SetFailSilently(v)
    \/ \E i \in FormIds, e \in ErrorProfiles : NewForm(i, e)
    \/ \E l \in Layouts : AddLayout(l)
    \/ \E i \in FormIds, kind \in {"none", "FormHelper", "str"}, c \in BOOLEAN :
           RenderForm(i, kind, c)

Spec == Init /\ [][Next]_vars

(***************************************************************************)
(* The helper alone: its attributes and get_attributes.                    *)
(***************************************************************************)
InitHelper ==
    /\ settings = "unset"
    /\ forms = [i \in FormIds |-> NewFormValue(NoErrors)]
    /\ helper = FormHelperInit
    /\ raised = ""
    /\ attrs = EmptyDict
    /\ last = NoRender
    /\ instances = TwoHelpers

NextHelper ==
    \/ \E v \in MethodValues : SetFormMethod(v)
    \/ \E v \in StyleValues : SetFormStyle(v)
    \/ \E v \in ActionValues : SetFormAction(v)
    \/ \E v \in IdValues : SetFormId(v)
    \/ \E v \in ClassValues : SetFormClass(v)
    \/ \E v \in TitleValues : SetFormErrorTitle(v)
    \/ \E v \in FormsetTitleValues : SetFormsetErrorTitle(v)
    \/ \E b \in BOOLEAN : SetFormTag(b)
    \/ \E x \in InputValues : AddInput(x)
    \/ GetAttributes

SpecHelper == InitHelper /\ [][NextHelper]_vars

(***************************************************************************)
(* Toggling form_tag between renders: a helper whose layout and other      *)
(* attributes stay as constructed, one setting for the whole behaviour.    *)
(***************************************************************************)
InitToggle ==
    /\ settings \in {"unset", "False"}
    /\ forms = [i \in FormIds |-> NewFormValue(NoErrors)]
    /\ helper \in {FormHelperInit, TestHelper} \cup {add_layout(TestHelper, l) : l \in Layouts}
    /\ raised = ""
    /\ attrs = EmptyDict
    /\ last = NoRender
    /\ instances = TwoHelpers

NextToggle ==
    \/ \E b \in BOOLEAN : SetFormTag(b)
    \/ \E i \in FormIds, e \in ErrorProfiles : NewForm(i, e)
    \/ \E i \in FormIds, c \in BOOLEAN : RenderForm(i, "FormHelper", c)

SpecToggle == InitToggle /\ [][NextToggle]_vars

(***************************************************************************)
(* Fields deleted on the go: from the form and from the layout.            *)
(***************************************************************************)
InitDelete ==
    /\ settings \in {"unset", "False"}
    /\ forms = [i \in FormIds |-> NewFormValue(NoErrors)]
    /\ helper \in {add_layout(FormHelperInit, l) : l \in {LayoutAB, LayoutFieldset, LayoutDouble}}
    /\ raised = ""
    /\ attrs = EmptyDict
    /\ last = NoRender
    /\ instances = TwoHelpers

NextDelete ==
    \/ \E i \in FormIds, n \in Range(FormFields) : DeleteField(i, n)
    \/ \E i \in FormIds, e \in ErrorProfiles : NewForm(i, e)
    \/ \E i \in FormIds, c \in BOOLEAN : RenderForm(i, "FormHelper", c)

SpecDelete == InitDelete /\ [][NextDelete]_vars

(***************************************************************************)
(* MultiField layouts over forms with errors and help text.                *)
(***************************************************************************)
InitMulti ==
    /\ settings = "unset"
    /\ forms = [i \in FormIds |-> NewFormValue(NoErrors)]
    /\ helper = add_layout(FormHelperInit, LayoutMultiAB)
    /\ raised = ""
    /\ attrs = EmptyDict
    /\ last = NoRender
    /\ instances = TwoHelpers

NextMulti ==
    \/ \E v \in {"unset", "False"} : SetFailSilently(v)
    \/ \E i \in FormIds, e \in ErrorProfiles \cup {ErrorsOnAB}, h \in HelpProfiles :
           NewFormHelp(i, e, h)
    \/ \E l \in MultiLayouts : AddLayout(l)
    \/ \E i \in FormIds, c \in BOOLEAN : RenderForm(i, "FormHelper", c)

SpecMulti == InitMulti /\ [][NextMulti]_vars

(***************************************************************************)
(* A formset of two forms and one helper shared by them.                   *)
(***************************************************************************)
InitFormset ==
    /\ settings \in {"unset", "False"}
    /\ forms = [i \in FormsetIds |-> NewFormValue(NoErrors)]
    /\ helper \in {TestHelper} \cup
                  {add_layout(TestHelper, l) : l \in {LayoutAB, LayoutTypo, LayoutDouble, LayoutMulti}}
    /\ raised = ""
    /\ attrs = EmptyDict
    /\ last = NoRender
    /\ instances = TwoHelpers

NextFormset ==
    \/ \E i \in FormsetIds, e \in ErrorProfiles : NewForm(i, e)
    \/ \E c \in BOOLEAN : RenderFormset(c)
    \/ \E i \in FormsetIds, c \in BOOLEAN : RenderForm(i, "FormHelper", c)

SpecFormset == InitFormset /\ [][NextFormset]_vars

(***************************************************************************)
(* Two helper instances and their inputs.                                  *)
(***************************************************************************)
InitInputs ==
    /\ settings = "unset"
    /\ forms = [i \in FormIds |-> NewFormValue(NoErrors)]
    /\ helper = FormHelperInit
    /\ raised = ""
    /\ attrs = EmptyDict
    /\ last = NoRender
    /\ instances = TwoHelpers

NextInputs ==
    \/ \E k \in HelperIds : NewHelper(k)
    \/ \E k \in HelperIds, x \in AllInputs : AddInputTo(k, x)

SpecInputs == InitInputs /\ [][NextInputs]_vars

(***************************************************************************)
(* render_field called field by field, between renders of a layout.        *)
(***************************************************************************)
InitField ==
    /\ settings \in {"unset", "False"}
    /\ forms = [i \in FormIds |-> NewFormValue(NoErrors)]
    /\ helper \in {add_layout(FormHelperInit, l) : l \in {LayoutAB, LayoutDouble, LayoutTypo}}
    /\ raised = ""
    /\ attrs = EmptyDict
    /\ last = NoRender
    /\ instances = TwoHelpers

NextField ==
    \/ \E v \in {"unset", "False"} : SetFailSilently(v)
    \/ \E i \in FormIds, e \in ErrorProfiles : NewForm(i, e)
    \/ \E i \in FormIds, n \in CallNodes : RenderFieldCall(i, n)
    \/ \E i \in FormIds, c \in BOOLEAN : RenderForm(i, "FormHelper", c)

SpecField == InitField /\ [][NextField]_vars

(***************************************************************************)
(* The tag without a helper, and with a helper that has no layout.         *)
(***************************************************************************)
InitPlain ==
    /\ settings = "unset"
    /\ forms = [i \in FormIds |-> NewFormValue(NoErrors)]
    /\ helper = FormHelperInit
    /\ raised = ""
    /\ attrs = EmptyDict
    /\ last = NoRender
    /\ instances = TwoHelpers

NextPlain ==
    \/ \E v \in ActionValues : SetFormAction(v)
    \/ \E v \in IdValues : SetFormId(v)
    \/ \E v \in TitleValues : SetFormErrorTitle(v)
    \/ \E x \in InputValues : AddInput(x)
    \/ \E i \in FormIds, kind \in {"none", "FormHelper"}, c \in BOOLEAN : RenderForm(i, kind, c)

SpecPlain == InitPlain /\ [][NextPlain]_vars

(***************************************************************************)
(* What the properties below read off a layout, a form and a markup.       *)
(***************************************************************************)
\* the field references under a sequence of nodes, depth first, left to right
RECURSIVE RefNames(_)
RefNames(nodes) ==
    IF nodes = << >> THEN << >>
    ELSE (IF Head(nodes).kind = "Field" THEN <<Head(nodes).name>>
          ELSE RefNames(Head(nodes).fields))
         \o RefNames(Tail(nodes))

\* the kinds of the nodes under a sequence of nodes
RECURSIVE Kinds(_)
Kinds(nodes) ==
    IF nodes = << >> THEN {}
    ELSE {Head(nodes).kind} \cup Kinds(Head(nodes).fields) \cup Kinds(Tail(nodes))

\* an opening and a closing tag in the shape of a markup
Open == <<-1>>
Close == <<-2>>

\* the shape a sequence of nodes is to have in the markup on form f: the names of
\* its references that are fields of f in declaration order, the children of a
\* container between its tags, nothing for a name that is no field of f
RECURSIVE ExpectedShape(_, _)
ExpectedShape(nodes, f) ==
    IF nodes = << >> THEN << >>
    ELSE LET n == Head(nodes)
         IN  (CASE n.kind = "Field" -> IF n.name \in Range(f.fields) THEN <<n.name>> ELSE << >>
                [] n.kind = "HTML" -> << >>
                [] n.kind = "MultiField" ->
                     <<Open, Open>> \o ExpectedShape(n.fields, f) \o <<Close, Close>>
                [] OTHER -> <<Open>> \o ExpectedShape(n.fields, f) \o <<Close>>)
             \o ExpectedShape(Tail(nodes), f)

\* the shape of a markup: its field markups by name, its container tags
IsMark(tok) ==
    tok.t \in {"field", "<fieldset", "</fieldset>", "<div", "<div class=multiField>", "</div>"}
MarkOf(tok) ==
    IF tok.t = "field" THEN tok.name
    ELSE IF tok.t \in {"</fieldset>", "</div>"} THEN Close ELSE Open
Shape(html) == LET m == SelectSeq(html, IsMark) IN [k \in DOMAIN m |-> MarkOf(m[k])]

\* the names of the fields a markup holds the markup of
FieldsIn(html) == {html[k].name : k \in {j \in DOMAIN html : html[j].t = "field"}}

\* the fields of f that are neither referenced by the layout nor in the list pre
Remaining(layout, f, pre) ==
    LET Left(n) == n \notin Range(pre) /\ n \notin Range(RefNames(layout.fields))
    IN  SelectSeq(f.fields, Left)

\* the rendered_fields list of a form ([] when the attribute is missing)
RenderedList(f) == IF f.has_rendered THEN f.rendered_fields ELSE << >>

\* the names of a sequence up to the second occurrence of the first name repeated
RECURSIVE BeforeRepeat(_, _)
BeforeRepeat(names, seen) ==
    IF names = << >> \/ Head(names) \in seen THEN << >>
    ELSE <<Head(names)>> \o BeforeRepeat(Tail(names), seen \cup {Head(names)})

HasRepeat(names) == BeforeRepeat(names, {}) # names

\* the step is a layout pass over form i
PassOn(i) == forms'[i].passes = forms[i].passes + 1

\* the most recent get_render call rendered the helper's layout against form i
LastPassOn(i) ==
    /\ last.called
    /\ UsesLayout(last.kind, last.helper)
    /\ i \in Range(last.targets)

\* a cause to raise that is none of an unresolved or a twice-rendered field: a
\* name outside ASCII, or a MultiField over a form with errors
OtherCause(layout, f) ==
    \/ \E n \in Range(RefNames(layout.fields)) : ~AsciiOnly(n)
    \/ "MultiField" \in Kinds(layout.fields) /\ \E n \in DOMAIN f.errors : f.errors[n] # << >>

(***************************************************************************)
(* C1.  A layout rendered against a form whose rendered-set is empty: the  *)
(* markup the pass returns holds the field references in depth-first,      *)
(* left-to-right declaration order, the children of a container between    *)
(* its opening and closing tags, and after them every field of the form    *)
(* no node referenced, in the order of the form's field mapping.           *)
(***************************************************************************)
C1_DeclaredThenRemaining ==
    \A i \in DOMAIN forms :
        (LastPassOn(i) /\ last.exc = "" /\ forms[i].passes = 1)
        => Shape(forms[i].form_html)
           = ExpectedShape(last.helper.layout.fields, forms[i])
             \o Remaining(last.helper.layout, forms[i], << >>)

\* fields {a, b} declared on a form with fields {a, b, c}: a, b, then c
C1_Witness ==
    /\ LastPassOn(1) /\ last.exc = "" /\ forms[1].passes = 1
    /\ last.helper.layout = LayoutAB
    /\ Shape(forms[1].form_html) = <<FA, FB, FC>>

(***************************************************************************)
(* C2.  No field is dropped: the markup of every layout pass that returns, *)
(* a second or later pass over the same form included, holds the markup    *)
(* of every field of the form's field mapping.                             *)
(***************************************************************************)
C2_NoFieldDropped ==
    \A i \in DOMAIN forms :
        (LastPassOn(i) /\ last.exc = "")
        => Range(forms[i].fields) \subseteq FieldsIn(forms[i].form_html)

(***************************************************************************)
(* C3.  The rendered-fields tracking is reset per pass: at the start of    *)
(* every layout pass over a form, no name an earlier pass emitted counts   *)
(* as rendered.                                                            *)
(***************************************************************************)
C3_ResetPerPass ==
    [][\A i \in DOMAIN forms :
           PassOn(i) => \A n \in AllNames : ~AlreadyRendered(n, RenderedOf(forms[i]))]_vars

(***************************************************************************)
(* C4.  A layout pass over a layout with a name that is no field of the    *)
(* form: in strict mode the pass raises; in permissive mode it never       *)
(* raises the unresolved-field error, returns unless there is another      *)
(* cause to raise, and its markup holds nothing for that name, the other   *)
(* nodes at their places and then the fields the pass had left to append.  *)
(***************************************************************************)
HasAbsent(layout, f) ==
    \E n \in Range(RefNames(layout.fields)) : AsciiOnly(n) /\ n \notin Range(f.fields)

C4_UnresolvedField ==
    [][\A i \in DOMAIN forms :
           (PassOn(i) /\ HasAbsent(helper.layout, forms[i]))
           => IF ~FAIL_SILENTLY(settings)
              THEN raised' # "" /\ forms'[i].form_html = forms[i].form_html
              ELSE /\ raised' # ExcUnresolved
                   /\ ~OtherCause(helper.layout, forms[i]) => raised' = ""
                   /\ raised' = ""
                      => Shape(forms'[i].form_html)
                         = ExpectedShape(helper.layout.fields, forms[i])
                           \o Remaining(helper.layout, forms[i], RenderedList(forms[i]))]_vars

\* permissive mode, Layout('typo', 'b') on a new form: b, then a and c
C4_Witness ==
    /\ LastPassOn(1) /\ last.exc = "" /\ raised = "" /\ forms[1].passes = 1
    /\ FAIL_SILENTLY(settings)
    /\ last.helper.layout = LayoutTypo
    /\ Shape(forms[1].form_html) = <<FB, FA, FC>>
    /\ forms[1].rendered_fields = <<Typo, FB, FA, FC>>

(***************************************************************************)
(* C5.  A layout pass over a layout that declares a name twice: in strict  *)
(* mode the pass raises and renders no reference after the second          *)
(* occurrence, and a pass that started with an empty rendered-set raises   *)
(* the double-render error exactly there; in permissive mode the pass      *)
(* never raises that error and its markup holds the field at each place    *)
(* it is declared.                                                         *)
(***************************************************************************)
C5_DoubleRender ==
    [][\A i \in DOMAIN forms :
           LET names == RefNames(helper.layout.fields)
               before == BeforeRepeat(names, {})
               pre == RenderedList(forms[i])
           IN  (PassOn(i) /\ HasRepeat(names))
               => IF ~FAIL_SILENTLY(settings)
                  THEN /\ raised' # ""
                       /\ forms'[i].form_html = forms[i].form_html
                       /\ Range(forms'[i].rendered_fields) \subseteq Range(pre) \cup Range(before)
                       /\ (/\ pre = << >>
                           /\ Range(before) \subseteq Range(forms[i].fields)
                           /\ ~OtherCause(helper.layout, forms[i]))
                          => /\ raised' = ExcDouble
                             /\ forms'[i].rendered_fields = before
                  ELSE /\ raised' # ExcDouble
                       /\ ~OtherCause(helper.layout, forms[i]) => raised' = ""
                       /\ raised' = ""
                          => Shape(forms'[i].form_html)
                             = ExpectedShape(helper.layout.fields, forms[i])
                               \o Remaining(helper.layout, forms[i], pre)]_vars

\* permissive mode, Layout('a', 'b', 'a') on a new form: a, b, a, then c
C5_Witness ==
    /\ LastPassOn(1) /\ last.exc = "" /\ raised = "" /\ forms[1].passes = 1
    /\ FAIL_SILENTLY(settings)
    /\ last.helper.layout = LayoutDouble
    /\ Shape(forms[1].form_html) = <<FA, FB, FA, FC>>

(***************************************************************************)
(* C6.  A field identifier with characters outside ASCII: in strict mode   *)
(* the pass raises; in permissive mode it does not raise the               *)
(* forbidden-characters error and the render goes on.                      *)
(***************************************************************************)
C6_InvalidUnicode ==
    [][\A i \in DOMAIN forms :
           (PassOn(i) /\ \E n \in Range(RefNames(helper.layout.fields)) : ~AsciiOnly(n))
           => IF ~FAIL_SILENTLY(settings) THEN raised' # "" ELSE raised' # ExcUnicode]_vars

(***************************************************************************)
(* C7.  A helper variable that resolves to an object that is no            *)
(* FormHelper: get_render raises TypeError in either mode, and no form is  *)
(* changed (no form_html, no rendered_fields).                             *)
(***************************************************************************)
C7_InvalidHelper ==
    [][\A i \in DOMAIN forms, c \in BOOLEAN :
           RenderForm(i, "str", c) => raised' = "TypeError" /\ forms' = forms]_vars

\* permissive mode, a helper with a layout in the context beside the invalid one
C7_Witness ==
    /\ last.called /\ last.kind = "str" /\ raised = "TypeError"
    /\ FAIL_SILENTLY(settings)
    /\ helper.has_layout
    /\ ~forms[1].has_html /\ ~forms[1].has_rendered

(***************************************************************************)
(* C8.  An assignment to form_method of a value that is not 'get' or       *)
(* 'post', or to form_style of one that is not 'default' or 'inline'       *)
(* (case-insensitively), raises FormHelpersException and leaves the helper *)
(* as it was; so the method is always 'get' or 'post' in lower case, the   *)
(* style projection '' or 'inlineLabels', and get_attributes succeeds.     *)
(***************************************************************************)
C8_MethodAndStyle ==
    /\ [](/\ helper._form_method \in {Get, Post}
          /\ get_form_style(helper) \in {<< >>, InlineLabels}
          /\ get_attributes(helper).exc = "")
    /\ [][/\ \A v \in MethodValues :
                SetFormMethod(v)
                => IF Lower(v) \in {Get, Post}
                   THEN raised' = "" /\ helper'._form_method = Lower(v)
                   ELSE raised' = "FormHelpersException" /\ helper' = helper
          /\ \A v \in StyleValues :
                SetFormStyle(v)
                => IF Lower(v) \in {Default, Inline}
                   THEN raised' = "" /\ helper'._form_style = Lower(v)
                   ELSE raised' = "FormHelpersException" /\ helper' = helper]_vars

\* form_method = 'GET' took effect, then a failed assignment left it
C8_Witness ==
    /\ raised = "FormHelpersException"
    /\ helper._form_method = Get
    /\ helper._form_style = Inline

(***************************************************************************)
(* C9.  get_attributes on a helper with nothing set returns exactly        *)
(* form_method 'post', form_style '' and form_tag True; each optional      *)
(* attribute is a key of the mapping exactly when it was set to a          *)
(* non-empty value, and is never there with an empty value.                *)
(***************************************************************************)
\* the optional keys and the values they are projected from
OptionalValues(h) ==
    [form_action |-> h._form_action, id |-> h.form_id, class |-> h.form_class,
     form_error_title |-> h.form_error_title, formset_error_title |-> h.formset_error_title]

C9_OptionalAttributes ==
    attrs # EmptyDict
    => /\ helper = FormHelperInit
          => attrs = [form_method |-> Post, form_style |-> << >>, form_tag |-> TRUE]
       /\ \A k \in DOMAIN OptionalValues(helper) :
             /\ k \in DOMAIN attrs <=> Truthy(OptionalValues(helper)[k])
             /\ k \in DOMAIN attrs => attrs[k] # << >>
       /\ "inputs" \in DOMAIN attrs <=> helper.inputs # << >>

(***************************************************************************)
(* C10.  Two renders of the same template with the same form and helper,   *)
(* form_tag toggled in between: the second returns, its context differs    *)
(* from the first's in the form-tag entry only, and with a layout the      *)
(* markup stored in form_html is the same.                                 *)
(***************************************************************************)
C10_ToggleFormTag ==
    [][\A i \in DOMAIN forms, c \in BOOLEAN :
           (/\ RenderForm(i, "FormHelper", c)
            /\ last.called /\ last.exc = "" /\ last.targets = <<i>>
            /\ last.kind = "FormHelper" /\ last.csrf = c
            /\ last.helper = [helper EXCEPT !.form_tag = ~helper.form_tag])
           => /\ raised' = ""
              /\ [last'.ctx EXCEPT !["form_tag"] = TRUE] = [last.ctx EXCEPT !["form_tag"] = TRUE]
              /\ helper.has_layout => forms'[i].form_html = forms[i].form_html]_vars

(***************************************************************************)
(* C11.  After a field is deleted from the form's field mapping and from   *)
(* the child list of the layout node that declared it, every later render  *)
(* of that form with that helper that returns, a first render or a         *)
(* re-render, holds no markup for that field: none from the layout nodes,  *)
(* none from the automatic append.                                         *)
(***************************************************************************)
\* the fields the class declares that the caller deleted from form f
Deleted(f) == Range(f.base_fields) \ Range(f.fields)

C11_DeletedFieldGone ==
    [][\A i \in DOMAIN forms :
           (PassOn(i) /\ raised' = "")
           => \A n \in Deleted(forms[i]) :
                 n \notin Range(RefNames(helper.layout.fields))
                 => n \notin FieldsIn(forms'[i].form_html)]_vars

\* a, b, c rendered, b deleted, and the re-render returned a without b
C11_Witness ==
    /\ LastPassOn(1) /\ last.exc = "" /\ raised = ""
    /\ Deleted(forms[1]) = {FB}
    /\ FB \notin Range(RefNames(last.helper.layout.fields))
    /\ FB \in Range(forms[1].rendered_fields)
    /\ forms[1].passes = 2
    /\ FieldsIn(forms[1].form_html) = {FA}

(***************************************************************************)
(* C12.  MultiField.render over children that are fields of the form, any  *)
(* of which may carry errors and help text, returns: one error block per   *)
(* error before the field list, one help block per field with help text    *)
(* after it, the field markups inside it in declaration order, and error   *)
(* ids that are pairwise distinct.                                         *)
(***************************************************************************)
\* the layout is one MultiField whose children are all fields of f
MultiOfFields(layout, f) ==
    /\ Len(layout.fields) = 1
    /\ layout.fields[1].kind = "MultiField"
    /\ \A k \in DOMAIN layout.fields[1].fields :
           /\ layout.fields[1].fields[k].kind = "Field"
           /\ layout.fields[1].fields[k].name \in Range(f.fields)

\* the positions of the tokens of one kind in a markup
Positions(html, kind) == {k \in DOMAIN html : html[k].t = kind}

\* the number of errors, and of fields with help text, among the names
RECURSIVE ErrorCount(_, _)
ErrorCount(names, f) ==
    IF names = << >> THEN 0 ELSE Len(f.errors[Head(names)]) + ErrorCount(Tail(names), f)

HelpCount(names, f) == Cardinality({k \in DOMAIN names : f.help[names[k]] # ""})

\* the markup is that of the claim for the children names of the MultiField
MultiFieldMarkup(html, names, f) ==
    LET list == Positions(html, "<div class=multiField>")
        inner == {k \in Positions(html, "field") : html[k].a = "uni_form/multifield.html"}
        errs == Positions(html, "error")
        hints == Positions(html, "hint")
    IN  /\ Cardinality(list) = 1
        /\ Cardinality(errs) = ErrorCount(names, f)
        /\ \A e \in errs : \A l \in list : e < l
        /\ \A e1, e2 \in errs : e1 # e2 => html[e1].n # html[e2].n
        /\ Cardinality(hints) = HelpCount(names, f)
        /\ \A h \in hints : \A k \in inner : h > k
        /\ \A k \in inner : \A l \in list : k > l
        /\ LET m == SelectSeq(html, LAMBDA tok : tok.t = "field" /\ tok.a = "uni_form/multifield.html")
           IN  [k \in DOMAIN m |-> m[k].name] = names

C12_MultiFieldAggregates ==
    [][\A i \in DOMAIN forms :
           (/\ PassOn(i)
            /\ forms[i].passes = 0
            /\ MultiOfFields(helper.layout, forms[i]))
           => /\ raised' = ""
              /\ MultiFieldMarkup(forms'[i].form_html, RefNames(helper.layout.fields), forms[i])]_vars

(***************************************************************************)
(* C16.  A MultiField whose children include a Row, Column, Fieldset or    *)
(* HTML node renders without an error in strict mode as in permissive      *)
(* mode, the nested node's markup at its declared position.                *)
(***************************************************************************)
\* a MultiField of the layout has a child that is no field reference
NestedInMulti(layout) ==
    \E n \in Range(layout.fields) :
        n.kind = "MultiField" /\ \E c \in Range(n.fields) : c.kind # "Field"

C16_NestedInMultiField ==
    [][\A i \in DOMAIN forms :
           (/\ PassOn(i)
            /\ forms[i].passes = 0
            /\ NestedInMulti(helper.layout)
            /\ ~HasAbsent(helper.layout, forms[i])
            /\ ~OtherCause(helper.layout, forms[i]))
           => /\ raised' = ""
              /\ Shape(forms'[i].form_html)
                 = ExpectedShape(helper.layout.fields, forms[i])
                   \o Remaining(helper.layout, forms[i], << >>)]_vars

(***************************************************************************)
(* C13.  The tag over a formset and a helper with a layout: the layout is  *)
(* rendered once against each member in the formset's order, a member's    *)
(* form_html and rendered_fields are those of its own render, which        *)
(* starts from its own rendered_fields; over a single form the layout is   *)
(* rendered once against that form and no other form changes.             *)
(***************************************************************************)
\* the render of the helper's layout against form f alone
OwnRender(f) ==
    render_layout(helper, f, RenderedOf(f), get_attributes(helper).items["form_style"],
                  FAIL_SILENTLY(settings))

C13_FormsetMembers ==
    [][/\ \A c \in BOOLEAN :
              (RenderFormset(c) /\ helper.has_layout)
              => /\ \A k \in DOMAIN FormsetForms :
                        LET i == FormsetForms[k]
                            reached == \A j \in 1..(k - 1) : OwnRender(forms[FormsetForms[j]]).exc = ""
                        IN  IF reached
                            THEN forms'[i] = AfterLayout(forms[i], OwnRender(forms[i]))
                            ELSE forms'[i] = forms[i]
                 /\ raised' = "" <=> \A i \in Range(FormsetForms) : OwnRender(forms[i]).exc = ""
       /\ \A i \in DOMAIN forms, c \in BOOLEAN :
              (RenderForm(i, "FormHelper", c) /\ helper.has_layout)
              => /\ forms'[i] = AfterLayout(forms[i], OwnRender(forms[i]))
                 /\ \A j \in DOMAIN forms \ {i} : forms'[j] = forms[j]]_vars

\* a formset render that returned: each member has a, b and then c, and its own
\* rendered_fields
C13_Witness ==
    /\ last.called /\ last.is_formset /\ last.exc = "" /\ raised = ""
    /\ last.helper.has_layout /\ last.helper.layout = LayoutAB
    /\ \A i \in Range(FormsetForms) :
          /\ forms[i].passes = 1
          /\ Shape(forms[i].form_html) = <<FA, FB, FC>>
          /\ forms[i].rendered_fields = <<FA, FB, FC>>

SetOr(kind, v, default) == IF kind = "FormHelper" /\ Truthy(v) THEN Strip(v) ELSE default

C14_DefaultsWithoutLayout ==
    [][\A i \in DOMAIN forms, kind \in {"none", "FormHelper"}, c \in BOOLEAN :
           (RenderForm(i, kind, c) /\ ~UsesLayout(kind, helper))
           => /\ raised' = ""
              /\ forms' = forms
              /\ last'.ctx["form_action"] = SetOr(kind, get_form_action(helper), Dot)
              /\ last'.ctx["form_method"] = SetOr(kind, helper._form_method, Post)
              /\ last'.ctx["form_tag"] = (IF kind = "FormHelper" THEN helper.form_tag ELSE TRUE)
              /\ last'.ctx["form_class"] = SetOr(kind, helper.form_class, << >>)
              /\ last'.ctx["form_id"] = SetOr(kind, helper.form_id, << >>)
              /\ last'.ctx["form_error_title"] = SetOr(kind, helper.form_error_title, None)
              /\ last'.ctx["formset_error_title"] = SetOr(kind, helper.formset_error_title, None)
              /\ last'.ctx["inputs"] = (IF kind = "FormHelper" THEN helper.inputs ELSE << >>)
              /\ last'.ctx["form"] = <<i>>]_vars

\* {% uni_form form %}: the defaults, and the form as it was constructed
C14_Witness ==
    /\ last.called /\ last.kind = "none" /\ last.exc = "" /\ raised = ""
    /\ last.ctx["form_action"] = Dot
    /\ last.ctx["form_method"] = Post
    /\ last.ctx["form_error_title"] = None
    /\ ~forms[1].has_html /\ ~forms[1].has_rendered

(***************************************************************************)
(* C15.  A layout with no field reference at all (empty, or HTML nodes     *)
(* only) rendered against a form just constructed: the pass returns and    *)
(* its markup holds every field of the form, in the order of the form's    *)
(* field mapping.                                                          *)
(***************************************************************************)
C15_NoReferenceLayout ==
    [][\A i \in DOMAIN forms :
           (/\ PassOn(i)
            /\ forms[i].passes = 0 /\ ~forms[i].has_rendered
            /\ RefNames(helper.layout.fields) = << >>)
           => /\ raised' = ""
              /\ Shape(forms'[i].form_html) = forms[i].fields]_vars

(***************************************************************************)
(* C17.  Input lists are per helper instance: an add_input call on one     *)
(* helper appends the descriptor to that helper's inputs and changes       *)
(* neither the other helper's inputs nor the class-level list, which       *)
(* stays empty; a helper just constructed has no inputs.                   *)
(***************************************************************************)
C17_InputsPerInstance ==
    /\ [](instances.class_inputs = << >>)
    /\ [][/\ \A k \in HelperIds, x \in AllInputs :
                AddInputTo(k, x)
                => /\ InputsOf(instances', k) = Append(InputsOf(instances, k), x)
                   /\ \A j \in HelperIds \ {k} :
                         InputsOf(instances', j) = InputsOf(instances, j)
          /\ \A k \in HelperIds :
                NewHelper(k)
                => /\ InputsOf(instances', k) = << >>
                   /\ \A j \in HelperIds \ {k} :
                         InputsOf(instances', j) = InputsOf(instances, j)]_vars

\* interleaved calls: submit and hidden on helper 1, reset on helper 2
C17_Witness ==
    /\ InputsOf(instances, 1) = <<Submit("my-submit", "Submit"), Hidden("my-hidden", "Hidden")>>
    /\ InputsOf(instances, 2) = <<Reset("my-reset", "Reset")>>
    /\ instances.class_inputs = << >>

(***************************************************************************)
(* C18.  In both modes and after any sequence of renders a form's          *)
(* rendered_fields holds no name twice; a render_field call on a field     *)
(* identifier that raises in strict mode, for an unresolved field or a     *)
(* double render, leaves rendered_fields as it was before the call, and    *)
(* a call on a container that a child makes raise leaves it with the       *)
(* names of the children before that child added and nothing else.         *)
(***************************************************************************)
NoDuplicate(s) == \A k, l \in DOMAIN s : k # l => s[k] # s[l]

\* list s is list pre with some of the names appended
Extends(s, pre, names) ==
    /\ Len(s) >= Len(pre)
    /\ SubSeq(s, 1, Len(pre)) = pre
    /\ \A k \in (Len(pre) + 1)..Len(s) : s[k] \in names

====
